---- MODULE Spec2Model ----
(***************************************************************************)
(* Model of tableau-wb-backup2s3 (wb_backup2s3/core.py): the BackupWB2S3   *)
(* engine that copies Tableau workbooks to S3, keeps a per-site            *)
(* upload_state document, refreshes the Last-Modified of objects whose     *)
(* workbook is gone or which are about to expire, and the retry decorator. *)
(***************************************************************************)
EXTENDS Integers, Sequences, FiniteSets, TLC

(***************************************************************************)
(* Bounds of the model.                                                    *)
(***************************************************************************)
MaxRuns == 2          \* calls of backup_site in one behaviour
MaxItems == 2         \* workbooks in one listing of a site
MaxListed == 2        \* workbooks the server lists over all calls of a behaviour,
                      \* an empty listing counting as one
StartDay == 2         \* the day of the behaviour; the bucket holds older objects
MaxOutcomes == 6      \* length of the outcome sequences fed to retry (SpecRetry)

(***************************************************************************)
(* Program constants.                                                      *)
(***************************************************************************)
RetryTimesDefault == 6        \* def retry(_func=None, *, times=6)
RetryTimesState == 3          \* @retry(times=3) on _s3_upload_upload_state
s3_upload_state_file == "upload_state.json"
_download_error_ignore_tag == "WBBackupIgnoreErrors"

None == "None"

(***************************************************************************)
(* String helpers (str.startswith, str.endswith, '/'.join).                *)
(***************************************************************************)
startswith(s, p) == Len(s) >= Len(p) /\ SubSeq(s, 1, Len(p)) = p

endswith(s, p) == Len(s) >= Len(p) /\ SubSeq(s, Len(s) - Len(p) + 1, Len(s)) = p

RECURSIVE join(_, _)
join(sep, parts) ==
    IF Len(parts) = 0 THEN ""
    ELSE IF Len(parts) = 1 THEN parts[1]
    ELSE parts[1] \o sep \o join(sep, Tail(parts))

RECURSIVE Reverse(_)
Reverse(s) == IF s = <<>> THEN <<>> ELSE Reverse(Tail(s)) \o <<Head(s)>>

Range(s) == {s[i] : i \in 1..Len(s)}

(***************************************************************************)
(* Insertion-ordered dict (project_id_path): a sequence of <<key, value>>. *)
(***************************************************************************)
DictKeys(d) == {d[i][1] : i \in 1..Len(d)}

DictValues(d) == {d[i][2] : i \in 1..Len(d)}

DictGet(d, k) == d[CHOOSE i \in 1..Len(d) : d[i][1] = k][2]

DictSet(d, k, v) ==
    IF k \in DictKeys(d)
    THEN [i \in 1..Len(d) |-> IF d[i][1] = k THEN <<k, v>> ELSE d[i]]
    ELSE Append(d, <<k, v>>)

(***************************************************************************)
(* The environment: the Tableau Server (sites, projects, workbooks).       *)
(***************************************************************************)
\* TSC.Pager(self.ts.sites.get): the names of the sites, in listing order
AllSites == <<"s1", "s2">>

\* site names a caller may pass; "zz" is a site the server does not list
SiteNames == {"s1", "s2", "zz"}

\* TSC.Pager(self.ts.projects) of each site
TsProjects(site) ==
    IF site = "s1"
    THEN << [id |-> "p1", parent_id |-> None, name |-> "A"],
            [id |-> "p2", parent_id |-> "p1", name |-> "B"] >>
    ELSE << [id |-> "p4", parent_id |-> None, name |-> "A"] >>

\* datetimes: wall-clock second, microsecond, utc offset (minutes)
T1 == [sec |-> 1, us |-> 0, tz |-> 0]
T1u == [sec |-> 1, us |-> 5, tz |-> 0]
T2 == [sec |-> 2, us |-> 0, tz |-> 0]
T1z == [sec |-> 1, us |-> 0, tz |-> 60]

\* snapshots of workbooks the server may list (WorkbookItem)
WB(id, name, project_id, created_at, updated_at, tags) ==
    [id |-> id, name |-> name, project_id |-> project_id,
     created_at |-> created_at, updated_at |-> updated_at, tags |-> tags]

WorkbookUniverse(site) ==
    IF site = "s1"
    THEN << WB("w1", "R", "p1", T1, T1, {}),
            WB("w1", "R", "p1", T1, T1u, {}),
            WB("w1", "R", "p1", T1, T2, {}),
            WB("w1", "R", "p1", T1z, T1, {}),
            WB("w2", "R", "p1", T1, T1, {}),
            WB("w3", "R", "p2", T1, T1, {_download_error_ignore_tag}),
            WB("w4", "B/R", "p1", T1, T1, {}) >>
    ELSE << WB("w5", "R", "p4", T1, T1, {}),
            WB("w6", "Q", "p4", T1, T2, {}) >>

\* TSC.Pager(self.ts.workbooks): any listing of at most MaxItems workbooks
\* with pairwise different ids, in the order of the universe
ListingsOf(site) ==
    LET U == WorkbookUniverse(site)
        Idx == {S \in SUBSET (1..Len(U)) :
                   /\ Cardinality(S) <= MaxItems
                   /\ \A i, j \in S : i # j => U[i].id # U[j].id}
        RECURSIVE Pick(_, _)
        Pick(S, i) == IF i > Len(U) THEN <<>>
                      ELSE (IF i \in S THEN <<U[i]>> ELSE <<>>) \o Pick(S, i + 1)
    IN {Pick(S, 1) : S \in Idx}

AllListings == [site \in Range(AllSites) |-> ListingsOf(site)]

Listings(site) == AllListings[site]

\* projects filters a caller may pass to backup_site
ProjectFilters == {<<>>, <<"A/B">>, <<"A/">>}

(***************************************************************************)
(* strftime(self._time_format) with '%Y-%m-%d %H:%M:%S%z': the wall-clock  *)
(* time to the second, and the offset; microseconds are dropped.           *)
(***************************************************************************)
strftime(t) == [sec |-> t.sec, tz |-> t.tz]

(***************************************************************************)
(* retry: the decorator's wrapper_retry, run against the outcomes the      *)
(* wrapped function produces on its successive invocations. An outcome is  *)
(* [ok |-> TRUE, val |-> v] (returns v) or [ok |-> FALSE, exc |-> e].      *)
(* The result says how the wrapper ended and how often it called func.     *)
(***************************************************************************)
Ok(v) == [ok |-> TRUE, val |-> v, exc |-> None]

Fail(e) == [ok |-> FALSE, val |-> None, exc |-> e]

RECURSIVE retry_loop(_, _, _, _)
retry_loop(outcomes, times, attempt, last_exception) ==
    IF attempt >= times
    THEN [kind |-> "raise", value |-> last_exception, calls |-> attempt]
    ELSE IF outcomes[attempt + 1].ok
         THEN [kind |-> "return", value |-> outcomes[attempt + 1].val,
               calls |-> attempt + 1]
         ELSE retry_loop(outcomes, times, attempt + 1, outcomes[attempt + 1].exc)

\* mutant: the loop runs range(times - 1)
wrapper_retry_one_short(outcomes, times) == retry_loop(outcomes, times - 1, 0, None)

wrapper_retry(outcomes, times) == retry_loop(outcomes, times, 0, None)

\* the outcome sequences the environment answers a retried call with:
\* success of every attempt, or failure of every attempt
Repeat(x, n) == [i \in 1..n |-> x]

CallOutcomes(times, v, exc) == {Repeat(Ok(v), times), Repeat(Fail(exc), times)}

(***************************************************************************)
(* _build_project_structure over the projects the server lists.            *)
(***************************************************************************)
\* all_projects = {i.id: i for i in all_projects}
ProjectById(all_projects, id) ==
    all_projects[CHOOSE i \in 1..Len(all_projects) : all_projects[i].id = id]

\* the while-loop of lines 170-175: names of the ancestors, nearest first
RECURSIVE parent_walk(_, _)
parent_walk(all_projects, parent_id) ==
    IF parent_id # None
    THEN <<ProjectById(all_projects, parent_id).name>>
         \o parent_walk(all_projects, ProjectById(all_projects, parent_id).parent_id)
    ELSE <<>>

project_path(all_projects, project) ==
    join("/", Reverse(parent_walk(all_projects, project.parent_id)) \o <<project.name>>)
    \o "/"

\* self.projects_hierarchy.setdefault(parent_id, []).append(project.id)
hierarchy_append(h, parent_id, id) ==
    IF parent_id \in DOMAIN h
    THEN [h EXCEPT ![parent_id] = Append(@, id)]
    ELSE (parent_id :> <<id>>) @@ h

\* the for-loop of lines 166-177; st = [hierarchy, id_path]
RECURSIVE build_loop(_, _, _)
build_loop(all_projects, i, st) ==
    IF i > Len(all_projects) THEN st
    ELSE build_loop(all_projects, i + 1,
            [hierarchy |-> hierarchy_append(st.hierarchy, all_projects[i].parent_id,
                                            all_projects[i].id),
             id_path |-> DictSet(st.id_path, all_projects[i].id,
                                 project_path(all_projects, all_projects[i]))])

_build_project_structure(all_projects, hierarchy, id_path) ==
    build_loop(all_projects, 1, [hierarchy |-> hierarchy, id_path |-> id_path])

(***************************************************************************)
(* _get_sub_projects: the children of project_id, then recursively theirs. *)
(***************************************************************************)
\* mutant: only the children are returned
_get_sub_projects_children_only(h, project_id) ==
    IF project_id \in DOMAIN h THEN h[project_id] ELSE <<>>

RECURSIVE _get_sub_projects(_, _)
_get_sub_projects(h, project_id) ==
    LET children == IF project_id \in DOMAIN h THEN h[project_id] ELSE <<>>
        RECURSIVE subs(_)
        subs(i) == IF i > Len(children) THEN <<>>
                   ELSE _get_sub_projects(h, children[i]) \o subs(i + 1)
    IN children \o subs(1)

(***************************************************************************)
(* backup_site, lines 317-331: the project ids an inclusion filter selects.*)
(***************************************************************************)
with_slash(project_path_) ==
    IF endswith(project_path_, "/") THEN project_path_ ELSE project_path_ \o "/"

\* [k for k, v in self.project_id_path.items() if v == project_path][0]
first_key_with_value(d, v) ==
    d[CHOOSE i \in 1..Len(d) :
        d[i][2] = v /\ \A j \in 1..(i - 1) : d[j][2] # v][1]

RECURSIVE project_ids_to_backup(_, _, _)
project_ids_to_backup(projects, id_path, h) ==
    IF projects = <<>> THEN <<>>
    ELSE LET pp == with_slash(Head(projects))
             rest == project_ids_to_backup(Tail(projects), id_path, h)
         IN IF pp \notin DictValues(id_path) THEN rest
            ELSE <<first_key_with_value(id_path, pp)>>
                 \o _get_sub_projects(h, first_key_with_value(id_path, pp))
                 \o rest

\* mutant: the path of the project is left out
_get_wb_path_no_project(site_name, id_path, wb) == site_name \o "/" \o wb.name

\* _get_wb_path
_get_wb_path(site_name, id_path, wb) ==
    site_name \o "/" \o DictGet(id_path, wb.project_id) \o wb.name

(***************************************************************************)
(* The state.                                                              *)
(***************************************************************************)
VARIABLES
    now,                 \* the day (datetime.now(), date.today())
    ts_site,             \* the site the Tableau session is switched to
    s3,                  \* the bucket: key -> [last_modified, body]
    current_site_name,   \* self.current_site_name
    project_id_path,     \* self.project_id_path (insertion-ordered dict)
    projects_hierarchy,  \* self.projects_hierarchy: parent id -> child ids
    user_id_username,    \* self.user_id_username has been filled
    bucket_name,         \* self.bucket_name
    upload_state,        \* self.upload_state: path -> entry
    failed_q,            \* self.failed_q
    successful_q,        \* self.successful_q
    pc,                  \* where backup_site stands
    call,                \* the arguments of the running backup_site call
    all_wbs,             \* backup_site's all_wbs (after the projects filter)
    queue_to_backup,     \* backup_site's queue_to_backup
    tasks,               \* the futures of the transfer pool
    result,              \* how the last backup_site call ended
    runs,                \* backup_site calls so far
    listed,              \* workbooks the server has listed so far (see MaxListed)
    loaded,              \* history: upload_state when the diff of this call began
    refresh_log,         \* history: keys the tombstone loop called the refresh on
    listing,             \* history: what the server listed to this call
    prev,                \* history: the last call that returned
    retry_run,           \* the retry harness: [times, outcomes, res]
    io_log,              \* history: state-document fetches and writes of this call
    structure_run,       \* the project-structure harness (see SpecStructure)
    upload_run           \* full_backup2s3: the upload phase of main (see SpecUpload)

vars == <<now, ts_site, s3, current_site_name, project_id_path, projects_hierarchy,
          user_id_username, bucket_name, upload_state, failed_q, successful_q,
          pc, call, all_wbs, queue_to_backup, tasks, result, runs, listed,
          loaded, refresh_log, listing, prev, retry_run, io_log, structure_run,
          upload_run>>

instance_vars == <<current_site_name, project_id_path, projects_hierarchy,
                   user_id_username, bucket_name, upload_state>>

run_vars == <<call, all_wbs, queue_to_backup, tasks>>

history_vars == <<loaded, refresh_log, listing, prev, io_log>>

EmptyDict == [k \in {} |-> None]

\* json.dumps(self.upload_state): the document is the set of its members
json_dumps(state) == {<<k, state[k]>> : k \in DOMAIN state}

\* json.loads(text)
json_loads(text) == [k \in {m[1] : m \in text} |-> (CHOOSE m \in text : m[1] = k)[2]]

StateKey(site) == site \o "/" \o s3_upload_state_file

S3Put(bucket, key, kind, body) ==
    (key :> [last_modified |-> now, kind |-> kind, body |-> body]) @@ bucket

\* s3.meta.client.copy of an object onto itself: only Last-Modified changes
S3Touch(bucket, keys) ==
    [k \in DOMAIN bucket |->
        IF k \in keys THEN [bucket[k] EXCEPT !.last_modified = now] ELSE bucket[k]]

Entry(wb, obj_key) ==
    [id |-> wb.id, name |-> wb.name,
     created_at |-> strftime(wb.created_at),
     updated_at |-> strftime(wb.updated_at),
     upload_date |-> now,
     object_key |-> obj_key]

\* the bucket as earlier, complete runs of site s1 left it: one workbook stored
\* StartDay days ago, one yesterday, the state written today
SeededBucket ==
    LET st == ("s1/A/R" :> [id |-> "w1", name |-> "R", created_at |-> strftime(T1),
                            updated_at |-> strftime(T1), upload_date |-> 0,
                            object_key |-> "s1/A/R.twbx"])
              @@ ("s1/A/B/R" :> [id |-> "w3", name |-> "R", created_at |-> strftime(T1),
                            updated_at |-> strftime(T1), upload_date |-> 0,
                            object_key |-> "s1/A/B/R.twbx"])
    IN ("s1/A/R.twbx" :> [last_modified |-> 0, kind |-> "file", body |-> {}])
       @@ ("s1/A/B/R.twbx" :> [last_modified |-> StartDay - 1, kind |-> "file",
                               body |-> {}])
       @@ (StateKey("s1") :> [last_modified |-> StartDay, kind |-> "doc",
                               body |-> json_dumps(st)])

NoCall == [site_name |-> None, projects |-> <<>>, max_workers |-> 0, days |-> 0,
           fetch |-> None]

\* history of the last call that returned: its arguments and listing, whether it
\* left every listed workbook recorded, whether it repeated such a call, and the
\* workbooks it stored without writing their entry (line 246 false)
NoPrev == [site_name |-> None, projects |-> <<>>, listing |-> <<>>,
           recorded |-> FALSE, repeat |-> FALSE, degraded |-> {}]

NoResult == [kind |-> "none", value |-> None, calls |-> 0]

NoRetry == [times |-> 0, outcomes |-> <<>>, done |-> FALSE, res |-> NoResult]

\* get_object calls of _s3_download_upload_state, put_object calls of
\* _s3_upload_upload_state and how many of them returned, and the object key on
\* which a refresh of the tombstone loop raised, in the running call, and the
\* sizes of the two sinks when the call began
NoIo == [loads |-> 0, put_calls |-> 0, puts |-> 0, refresh_failed |-> None,
         failed_before |-> 0, successful_before |-> 0]

NoStructure == [status |-> "off"]

NoUpload == [status |-> "off"]

Init ==
    /\ now = StartDay
    /\ ts_site = AllSites[1]
    /\ s3 = SeededBucket
    /\ current_site_name = None
    /\ project_id_path = <<>>
    /\ projects_hierarchy = EmptyDict
    /\ user_id_username = FALSE
    /\ bucket_name = None
    /\ upload_state = EmptyDict
    /\ failed_q = <<>>
    /\ successful_q = <<>>
    /\ pc = "idle"
    /\ call = NoCall
    /\ all_wbs = <<>>
    /\ queue_to_backup = <<>>
    /\ tasks = <<>>
    /\ result = [kind |-> "none", value |-> None, at |-> None]
    /\ runs = 0
    /\ listed = 0
    /\ loaded = EmptyDict
    /\ refresh_log = {}
    /\ listing = <<>>
    /\ prev = NoPrev
    /\ retry_run = NoRetry
    /\ io_log = NoIo
    /\ structure_run = NoStructure
    /\ upload_run = NoUpload

(***************************************************************************)
(* backup_site, lines 311-315: fill the user names once, set the bucket,   *)
(* _ts_switch_site (switch the session, load the state, build the project  *)
(* structure). fetch is what get_object and the parse do.                  *)
(***************************************************************************)
\* get_object answers (NoSuchKey when the key is absent), fails otherwise, or
\* answers with a body that does not parse
FetchOutcomes == {"ok", "error", "bad_body"}

\* _fill_user_id_username switches the session through every site
session_after_fill == IF user_id_username THEN ts_site ELSE AllSites[Len(AllSites)]

\* mutant: every ClientError is taken for NoSuchKey
_s3_download_upload_state_any_error(site, fetch) ==
    IF fetch = "error" \/ StateKey(site) \notin DOMAIN s3
    THEN [kind |-> "return", value |-> EmptyDict]
    ELSE IF fetch = "bad_body" \/ s3[StateKey(site)].kind # "doc"
         THEN [kind |-> "raise", value |-> "JSONDecodeError"]
         ELSE [kind |-> "return", value |-> json_loads(s3[StateKey(site)].body)]

\* _s3_download_upload_state: [kind, value] = returned state or raised error
_s3_download_upload_state(site, fetch) ==
    IF fetch = "error" THEN [kind |-> "raise", value |-> "ClientError"]
    ELSE IF StateKey(site) \notin DOMAIN s3
         THEN [kind |-> "return", value |-> EmptyDict]     \* NoSuchKey
         ELSE IF fetch = "bad_body" \/ s3[StateKey(site)].kind # "doc"
              THEN [kind |-> "raise", value |-> "JSONDecodeError"]
              ELSE [kind |-> "return", value |-> json_loads(s3[StateKey(site)].body)]

\* the call ends: it returns value, or raises value at the named place
EndCall(kind, value, at) ==
    /\ pc' = "idle"
    /\ result' = [kind |-> kind, value |-> value, at |-> at]
    /\ runs' = runs + 1

BackupSiteEnter(site_name, projects, max_workers, days, fetch) ==
    /\ pc = "idle"
    /\ runs < MaxRuns
    /\ listed < MaxListed
    /\ call' = [site_name |-> site_name, projects |-> projects,
                max_workers |-> max_workers, days |-> days,
                fetch |-> IF site_name \in Range(AllSites) THEN fetch ELSE None]
    /\ user_id_username' = TRUE
    /\ bucket_name' = "b1"
    /\ all_wbs' = <<>>
    /\ queue_to_backup' = <<>>
    /\ tasks' = <<>>
    /\ refresh_log' = {}
    /\ listing' = <<>>
    /\ IF site_name \in Range(AllSites)
       THEN LET got == _s3_download_upload_state(site_name, fetch)
                built == _build_project_structure(TsProjects(site_name),
                                                  projects_hierarchy, project_id_path)
            IN /\ ts_site' = site_name
               /\ current_site_name' = site_name
               /\ IF got.kind = "raise"
                  THEN /\ EndCall("raise", got.value, "load")
                       /\ UNCHANGED <<upload_state, projects_hierarchy,
                                      project_id_path, loaded>>
                  ELSE /\ upload_state' = got.value
                       /\ loaded' = got.value
                       /\ projects_hierarchy' = built.hierarchy
                       /\ project_id_path' = built.id_path
                       /\ pc' = "entered"
                       /\ UNCHANGED <<result, runs>>
       ELSE /\ ts_site' = session_after_fill
            /\ loaded' = upload_state
            /\ pc' = "entered"
            /\ UNCHANGED <<current_site_name, upload_state, projects_hierarchy,
                           project_id_path, result, runs>>
    /\ io_log' = [NoIo EXCEPT !.loads = IF site_name \in Range(AllSites) THEN 1 ELSE 0,
                              !.failed_before = Len(failed_q),
                              !.successful_before = Len(successful_q)]
    /\ UNCHANGED <<now, s3, failed_q, successful_q, listed, prev, retry_run,
                   structure_run, upload_run>>

(***************************************************************************)
(* backup_site, lines 317-368: the projects filter, the listing, the       *)
(* tombstone loop and the change detection that fills queue_to_backup.     *)
(***************************************************************************)
\* mutant: updated_at is compared as a datetime, not as its formatted string
needs_backup_raw_updated(state, wb_path, wb) ==
    ~ (/\ wb_path \in DOMAIN state
       /\ state[wb_path].id = wb.id
       /\ state[wb_path].updated_at = wb.updated_at
       /\ state[wb_path].created_at = strftime(wb.created_at))

\* mutant: the id is left out of the comparison
needs_backup_no_id(state, wb_path, wb) ==
    ~ (/\ wb_path \in DOMAIN state
       /\ state[wb_path].updated_at = strftime(wb.updated_at)
       /\ state[wb_path].created_at = strftime(wb.created_at))

\* mutant: created_at is left out of the comparison
needs_backup_no_created(state, wb_path, wb) ==
    ~ (/\ wb_path \in DOMAIN state
       /\ state[wb_path].id = wb.id
       /\ state[wb_path].updated_at = strftime(wb.updated_at))

\* lines 348-352, negated: the workbook has to be transferred
needs_backup(state, wb_path, wb) ==
    ~ (/\ wb_path \in DOMAIN state
       /\ state[wb_path].id = wb.id
       /\ state[wb_path].updated_at = strftime(wb.updated_at)
       /\ state[wb_path].created_at = strftime(wb.created_at))

\* lines 335-337
filter_wbs(lst, projects, ids) ==
    IF projects # <<>>
    THEN SelectSeq(lst, LAMBDA w : w.project_id \in Range(ids))
    ELSE lst

\* mutant: the membership test is inverted
gone_paths_inverted(state, paths) == {k \in DOMAIN state : k \in paths}

\* line 340: the entries of the state whose path the listing does not hold
gone_paths(state, paths) == {k \in DOMAIN state : k \notin paths}

ListedCost(lst) == IF lst = <<>> THEN 1 ELSE Len(lst)

NewTask == [pc |-> "queued", include_extract |-> TRUE, obj_key |-> None,
            exc |-> None, downloads |-> 0]

\* a tombstone loop that pops the entry before its refresh has returned
pop_tombstones_before_refresh(state, refreshed, failing) ==
    [k \in DOMAIN state \ (refreshed \cup {failing}) |-> state[k]]

\* lines 340-343: the loop pops an entry after _s3_update_last_modified on its
\* object_key has returned; the entry whose refresh raises is never popped
pop_tombstones(state, refreshed, failing) ==
    [k \in DOMAIN state \ refreshed |-> state[k]]

BackupSiteDiff(lst, refreshed, failing) ==
    /\ pc = "entered"
    /\ listed + ListedCost(lst) <= MaxListed
    /\ listed' = listed + ListedCost(lst)
    /\ listing' = lst
    /\ LET ids == project_ids_to_backup(call.projects, project_id_path,
                                        projects_hierarchy)
           wbs == filter_wbs(lst, call.projects, ids)
       IN
       /\ all_wbs' = wbs
       /\ IF wbs # <<>> /\ current_site_name = None
          THEN \* _get_wb_path: None + '/'
               /\ refreshed = {} /\ failing = None
               /\ EndCall("raise", "TypeError", "paths")
               /\ UNCHANGED <<s3, upload_state, refresh_log, queue_to_backup, tasks,
                              io_log>>
          ELSE IF \E i \in 1..Len(wbs) : wbs[i].project_id \notin DictKeys(project_id_path)
          THEN \* _get_wb_path: self.project_id_path[wb.project_id]
               /\ refreshed = {} /\ failing = None
               /\ EndCall("raise", "KeyError", "paths")
               /\ UNCHANGED <<s3, upload_state, refresh_log, queue_to_backup, tasks,
                              io_log>>
          ELSE
          LET path(w) == _get_wb_path(current_site_name, project_id_path, w)
              all_wbs_paths == {path(wbs[i]) : i \in 1..Len(wbs)}
              gone == gone_paths(upload_state, all_wbs_paths)
              key(k) == upload_state[k].object_key
              state1 == pop_tombstones(upload_state, refreshed, failing)
              queue == SelectSeq(wbs, LAMBDA w : needs_backup(state1, path(w), w))
          IN
          \* lines 340-343: refresh, then pop; a refresh that raises ends the call
          /\ refreshed \subseteq gone
          /\ \A k \in refreshed : key(k) \in DOMAIN s3
          /\ IF failing = None THEN refreshed = gone
                               ELSE failing \in gone \ refreshed
          /\ s3' = S3Touch(s3, {key(k) : k \in refreshed})
          /\ upload_state' = state1
          /\ refresh_log' = {key(k) : k \in refreshed}
                            \cup (IF failing = None THEN {} ELSE {key(failing)})
          /\ io_log' = [io_log EXCEPT
                           !.refresh_failed = IF failing = None THEN None ELSE key(failing)]
          /\ IF failing # None
             THEN /\ EndCall("raise", "ClientError", "tombstone")
                  /\ UNCHANGED <<queue_to_backup, tasks>>
             ELSE /\ queue_to_backup' = queue
                  /\ tasks' = [i \in 1..Len(queue) |-> NewTask]
                  /\ pc' = "pool"
                  /\ UNCHANGED <<result, runs>>
    /\ UNCHANGED <<now, ts_site, current_site_name, project_id_path, projects_hierarchy,
                   user_id_username, bucket_name, failed_q, successful_q, call,
                   loaded, prev, retry_run, structure_run, upload_run>>

(***************************************************************************)
(* The transfer pool (lines 370-371): one task per queued workbook, at     *)
(* most max_workers of them running, started in submission order.          *)
(***************************************************************************)
Started(i) == tasks[i].pc # "queued"

Running == {i \in 1..Len(tasks) : tasks[i].pc \notin {"queued", "done"}}

\* mutant: a transfer whose upload failed goes on to the state write
transfer_failure_recorded(wb_path, dl, fb, up) ==
    LET r1 == wrapper_retry(dl, RetryTimesDefault)
        r2 == wrapper_retry(fb, RetryTimesDefault)
        include_extract == r1.kind = "return"
        downloads == r1.calls + (IF include_extract THEN 0 ELSE r2.calls)
        file_ext == IF include_extract THEN r1.value ELSE r2.value
        r3 == wrapper_retry(up, RetryTimesDefault)
    IN IF ~include_extract /\ r2.kind = "raise"
       THEN [NewTask EXCEPT !.pc = "raised", !.include_extract = FALSE,
                            !.exc = r2.value, !.downloads = downloads]
       ELSE [NewTask EXCEPT !.pc = "uploaded", !.include_extract = include_extract,
                            !.obj_key = wb_path \o "." \o file_ext,
                            !.exc = IF r3.kind = "raise" THEN r3.value ELSE None,
                            !.downloads = downloads]

\* _do_backup, lines 218-245: download (with the fallback), key, upload.
\* dl, fb, up: what the server and S3 answer the successive invocations with;
\* the server names the file .twbx with the extract and .twb without it.
transfer(wb_path, dl, fb, up) ==
    LET r1 == wrapper_retry(dl, RetryTimesDefault)
        r2 == wrapper_retry(fb, RetryTimesDefault)
        include_extract == r1.kind = "return"
        downloads == r1.calls + (IF include_extract THEN 0 ELSE r2.calls)
        file_ext == IF include_extract THEN r1.value ELSE r2.value
        r3 == wrapper_retry(up, RetryTimesDefault)
    IN IF ~include_extract /\ r2.kind = "raise"
       THEN [NewTask EXCEPT !.pc = "raised", !.include_extract = FALSE,
                            !.exc = r2.value, !.downloads = downloads]
       ELSE IF r3.kind = "raise"
       THEN [NewTask EXCEPT !.pc = "raised", !.include_extract = include_extract,
                            !.exc = r3.value, !.downloads = downloads]
       ELSE [NewTask EXCEPT !.pc = "uploaded", !.include_extract = include_extract,
                            !.obj_key = wb_path \o "." \o file_ext,
                            !.downloads = downloads]

TaskTransfer(i, dl, fb, up) ==
    /\ pc = "pool"
    /\ i \in 1..Len(tasks)
    /\ tasks[i].pc = "queued"
    /\ \A j \in 1..(i - 1) : Started(j)
    /\ Cardinality(Running) < call.max_workers
    /\ LET wb == queue_to_backup[i]
           t == transfer(_get_wb_path(current_site_name, project_id_path, wb),
                         dl, fb, up)
       IN /\ tasks' = [tasks EXCEPT ![i] = t]
          /\ s3' = IF t.pc = "uploaded" THEN S3Put(s3, t.obj_key, "file", {}) ELSE s3
    /\ UNCHANGED <<now, ts_site, instance_vars, failed_q, successful_q, pc, call,
                   all_wbs, queue_to_backup, result, runs, listed, history_vars,
                   retry_run, structure_run, upload_run>>

\* mutant: the entry is written whatever artifact was stored
record_entry_ungated(state, wb_path, wb, t) ==
    (wb_path :> Entry(wb, t.obj_key)) @@ state

\* mutant: the worker writes back the state it saw when the pool started
record_entry_stale_copy(state, wb_path, wb, t) ==
    IF t.include_extract \/ _download_error_ignore_tag \in wb.tags
    THEN (wb_path :> Entry(wb, t.obj_key))
         @@ [k \in DOMAIN state \cap DOMAIN loaded |-> state[k]]
    ELSE state

\* _do_backup, lines 246-255: the worker writes the entry into self.upload_state
record_entry(state, wb_path, wb, t) ==
    IF t.include_extract \/ _download_error_ignore_tag \in wb.tags
    THEN (wb_path :> Entry(wb, t.obj_key)) @@ state
    ELSE state

TaskRecord(i) ==
    /\ pc = "pool"
    /\ i \in 1..Len(tasks)
    /\ tasks[i].pc = "uploaded"
    /\ LET wb == queue_to_backup[i]
       IN upload_state' = record_entry(upload_state,
              _get_wb_path(current_site_name, project_id_path, wb), wb, tasks[i])
    /\ tasks' = [tasks EXCEPT ![i].pc = "recorded"]
    /\ UNCHANGED <<now, ts_site, s3, current_site_name, project_id_path,
                   projects_hierarchy, user_id_username, bucket_name, failed_q,
                   successful_q, pc, call, all_wbs, queue_to_backup, result, runs,
                   listed, history_vars, retry_run, structure_run, upload_run>>

\* _backup_wb, lines 258-264 and 273-278: the outcome goes to one of the sinks
Workbook(wb) == [name |-> wb.name, id |-> wb.id, site |-> current_site_name]

\* the None that stands for the workbook in (exception, None)
NoWorkbook == [name |-> None, id |-> None, site |-> None]

\* mutant: a failed transfer is only logged
sink_put_drop_failure(t, wb, fq, sq) ==
    IF t.pc = "raised"
    THEN [failed |-> fq, successful |-> sq]
    ELSE [failed |-> fq, successful |-> Append(sq, Workbook(wb))]

\* mutant: the success record is put whether or not _do_backup raised
sink_put_always_successful(t, wb, fq, sq) ==
    IF t.pc = "raised"
    THEN [failed |-> Append(fq, <<t.exc, Workbook(wb)>>),
          successful |-> Append(sq, Workbook(wb))]
    ELSE [failed |-> fq, successful |-> Append(sq, Workbook(wb))]

sink_put(t, wb, fq, sq) ==
    IF t.pc = "raised"
    THEN [failed |-> Append(fq, <<t.exc, Workbook(wb)>>), successful |-> sq]
    ELSE [failed |-> fq, successful |-> Append(sq, Workbook(wb))]

TaskFinish(i) ==
    /\ pc = "pool"
    /\ i \in 1..Len(tasks)
    /\ tasks[i].pc \in {"recorded", "raised"}
    /\ LET q == sink_put(tasks[i], queue_to_backup[i], failed_q, successful_q)
       IN /\ failed_q' = q.failed
          /\ successful_q' = q.successful
    /\ tasks' = [tasks EXCEPT ![i].pc = "done"]
    /\ UNCHANGED <<now, ts_site, s3, instance_vars, pc, call, all_wbs, queue_to_backup,
                   result, runs, listed, history_vars, retry_run, structure_run, upload_run>>

(***************************************************************************)
(* backup_site, lines 372-378: the futures hold no exception (_backup_wb   *)
(* catches them all); then _s3_update_outdated_last_modified: list the     *)
(* site's objects, refresh those that are days old, failures to failed_q.  *)
(***************************************************************************)
PoolDone == \A i \in 1..Len(tasks) : tasks[i].pc = "done"

\* _s3_list_all_objects_in_curr_ts_site
_s3_list_all_objects_in_curr_ts_site(bucket, site) ==
    {k \in DOMAIN bucket : startswith(k, site \o "/")}

\* lines 436-437: the objects the sweep refreshes
outdated(bucket, site, curr_date, days) ==
    {k \in _s3_list_all_objects_in_curr_ts_site(bucket, site) :
        curr_date - bucket[k].last_modified >= days}

\* mutant: the sweep stops at the first refresh that raises
sweep_refreshed_until_failure(stale, failing) == IF failing = {} THEN stale ELSE {}

\* lines 435-437: every selected object is submitted to the pool; the copy of
\* each one whose refresh does not raise takes effect
sweep_refreshed(stale, failing) == stale \ failing

BackupSiteSweep(list_ok, failing) ==
    /\ pc = "pool"
    /\ PoolDone
    /\ IF ~list_ok
       THEN /\ failing = {}
            /\ EndCall("raise", "ClientError", "sweep")
            /\ UNCHANGED <<s3, failed_q>>
       ELSE IF current_site_name = None
       THEN \* None + '/' while filtering a page that has Contents
            /\ failing = {}
            /\ IF DOMAIN s3 # {} THEN EndCall("raise", "TypeError", "sweep")
                                 ELSE pc' = "persist" /\ UNCHANGED <<result, runs>>
            /\ UNCHANGED <<s3, failed_q>>
       ELSE LET stale == outdated(s3, current_site_name, now, call.days)
            IN /\ failing \subseteq stale
               /\ s3' = S3Touch(s3, sweep_refreshed(stale, failing))
               /\ failed_q' = failed_q
                      \o Repeat(<<"ClientError", NoWorkbook>>, Cardinality(failing))
               /\ pc' = "persist"
               /\ UNCHANGED <<result, runs>>
    /\ UNCHANGED <<now, ts_site, instance_vars, successful_q, run_vars, listed,
                   history_vars, retry_run, structure_run, upload_run>>

(***************************************************************************)
(* backup_site, lines 379-380: _s3_upload_upload_state under retry(3),     *)
(* then return len(queue_to_backup).                                       *)
(***************************************************************************)
\* history: the state holds every listed workbook at its path, with its id
\* and its two timestamps to the second
all_recorded(state, site, id_path, wbs) ==
    \A i \in 1..Len(wbs) :
        LET wb_path == _get_wb_path(site, id_path, wbs[i])
        IN /\ wb_path \in DOMAIN state
           /\ state[wb_path].id = wbs[i].id
           /\ state[wb_path].created_at.sec = wbs[i].created_at.sec
           /\ state[wb_path].created_at.tz = wbs[i].created_at.tz
           /\ state[wb_path].updated_at.sec = wbs[i].updated_at.sec
           /\ state[wb_path].updated_at.tz = wbs[i].updated_at.tz

\* history: the queued workbooks that were uploaded while the condition of
\* line 246 was false
stored_unrecorded ==
    {queue_to_backup[j] : j \in {m \in 1..Len(tasks) :
        /\ tasks[m].exc = None
        /\ ~ tasks[m].include_extract
        /\ _download_error_ignore_tag \notin queue_to_backup[m].tags}}

BackupSitePersist(put) ==
    /\ pc = "persist"
    /\ LET outs == IF current_site_name = None
                   THEN Repeat(Fail("TypeError"), RetryTimesState)
                   ELSE put
           r == wrapper_retry(outs, RetryTimesState)
       IN IF r.kind = "raise"
          THEN /\ EndCall("raise", r.value, "persist")
               /\ io_log' = [io_log EXCEPT !.put_calls = r.calls]
               /\ UNCHANGED <<s3, prev>>
          ELSE /\ s3' = S3Put(s3, StateKey(current_site_name), "doc",
                              json_dumps(upload_state))
               /\ io_log' = [io_log EXCEPT !.put_calls = r.calls, !.puts = 1]
               /\ EndCall("return", Len(queue_to_backup), "return")
               /\ prev' = [site_name |-> call.site_name, projects |-> call.projects,
                           listing |-> listing,
                           recorded |-> all_recorded(upload_state, current_site_name,
                                                     project_id_path, all_wbs),
                           repeat |-> /\ prev.recorded
                                      /\ prev.site_name = call.site_name
                                      /\ prev.projects = call.projects
                                      /\ prev.listing = listing,
                           degraded |-> stored_unrecorded]
    /\ UNCHANGED <<now, ts_site, instance_vars, failed_q, successful_q, run_vars,
                   listed, loaded, refresh_log, listing, retry_run, structure_run, upload_run>>

(***************************************************************************)
(* The specification of the engine.                                        *)
(***************************************************************************)
IntervalDays == 1     \* last_modified_update_interval the callers pass

MaxWorkers == 2       \* largest max_workers the callers pass

DownloadOutcomes == CallOutcomes(RetryTimesDefault, "twbx", "DownloadError")

FallbackOutcomes == CallOutcomes(RetryTimesDefault, "twb", "DownloadError")

UploadOutcomes == CallOutcomes(RetryTimesDefault, "ack", "UploadError")

PutOutcomes == CallOutcomes(RetryTimesState, "ack", "ClientError")

Next ==
    \/ /\ pc = "idle" /\ runs < MaxRuns
       /\ \E site_name \in SiteNames, projects \in ProjectFilters,
             fetch \in FetchOutcomes :
             BackupSiteEnter(site_name, projects, MaxWorkers, IntervalDays, fetch)
    \/ /\ pc = "entered"
       /\ \E lst \in Listings(ts_site), refreshed \in SUBSET (DOMAIN upload_state),
             failing \in DOMAIN upload_state \cup {None} :
             BackupSiteDiff(lst, refreshed, failing)
    \/ /\ pc = "pool"
       /\ \E i \in 1..Len(tasks), dl \in DownloadOutcomes, fb \in FallbackOutcomes,
             up \in UploadOutcomes :
             TaskTransfer(i, dl, fb, up)
    \/ /\ pc = "pool"
       /\ \E i \in 1..Len(tasks) : TaskRecord(i)
    \/ /\ pc = "pool"
       /\ \E i \in 1..Len(tasks) : TaskFinish(i)
    \/ /\ pc = "pool"
       /\ \E list_ok \in BOOLEAN, failing \in {{}} \cup {{k} : k \in DOMAIN s3} :
             BackupSiteSweep(list_ok, failing)
    \/ /\ pc = "persist"
       /\ \E put \in PutOutcomes : BackupSitePersist(put)

Spec == Init /\ [][Next]_vars

\* a call that has been entered runs to its end: the threads of the pools are
\* joined by the with-blocks, and every remote call returns or raises
SpecLive == Init /\ [][Next]_vars /\ WF_vars(Next)

(***************************************************************************)
(* The specification of retry alone: the wrapper applied to every sequence *)
(* of outcomes of the wrapped function, under both attempt budgets.        *)
(***************************************************************************)
RetryOutcomes == {Ok("v1"), Fail("e1"), Fail("e2")}

InitRetry ==
    /\ now = StartDay
    /\ ts_site = AllSites[1]
    /\ s3 = SeededBucket
    /\ current_site_name = None
    /\ project_id_path = <<>>
    /\ projects_hierarchy = EmptyDict
    /\ user_id_username = FALSE
    /\ bucket_name = None
    /\ upload_state = EmptyDict
    /\ failed_q = <<>>
    /\ successful_q = <<>>
    /\ pc = "idle"
    /\ call = NoCall
    /\ all_wbs = <<>>
    /\ queue_to_backup = <<>>
    /\ tasks = <<>>
    /\ result = [kind |-> "none", value |-> None, at |-> None]
    /\ runs = 0
    /\ listed = 0
    /\ loaded = EmptyDict
    /\ refresh_log = {}
    /\ listing = <<>>
    /\ prev = NoPrev
    /\ io_log = NoIo
    /\ structure_run = NoStructure
    /\ upload_run = NoUpload
    /\ \E times \in {RetryTimesState, RetryTimesDefault},
          outcomes \in [1..MaxOutcomes -> RetryOutcomes] :
          retry_run = [times |-> times, outcomes |-> outcomes, done |-> FALSE,
                       res |-> NoResult]

RetryCall ==
    /\ ~ retry_run.done
    /\ retry_run' = [retry_run EXCEPT !.done = TRUE,
                        !.res = wrapper_retry(retry_run.outcomes, retry_run.times)]
    /\ UNCHANGED <<now, ts_site, s3, instance_vars, failed_q, successful_q, pc,
                   run_vars, result, runs, listed, history_vars, structure_run,
                   upload_run>>

NextRetry == RetryCall

SpecRetry == InitRetry /\ [][NextRetry]_vars

(***************************************************************************)
(* The specification of the project structure alone: a fresh instance      *)
(* builds the structure of one site from any list of projects (parent      *)
(* links may dangle or form a cycle), the while-loop of lines 170-175 taken *)
(* one iteration at a time, and then resolves a projects filter and the    *)
(* paths of the site's workbooks as backup_site does (lines 317-338).      *)
(***************************************************************************)
MaxProjects == 3      \* projects of the site

ProjectIds == <<"q1", "q2", "q3", "q4", "q5">>

ItemIds == <<"r1", "r2", "r3", "r4", "r5">>

ProjectNames == {"Root", "Sales", "Q1"}

\* TSC.Pager(self.ts.projects): 1..MaxProjects projects with any names and any
\* parent links
ProjectLists ==
    UNION {
        {[i \in 1..n |-> [id |-> ProjectIds[i], parent_id |-> par[i], name |-> nam[i]]] :
            par \in [1..n -> {None} \cup {ProjectIds[j] : j \in 1..MaxProjects}],
            nam \in [1..n -> ProjectNames]}
        : n \in 1..MaxProjects}

\* TSC.Pager(self.ts.workbooks): one workbook named Report1 in every project
StructureListing(all_projects) ==
    [k \in 1..Len(all_projects) |->
        WB(ItemIds[k], "Report1", all_projects[k].id, T1, T1, {})]

StructureSites == {"prod", "s1"}

StructureFilters ==
    {<<>>, <<"Root">>, <<"Root/">>, <<"Root/Sales">>, <<"Root/Sales/">>, <<"Sales/">>,
     <<"Nope">>}

InitStructure ==
    /\ now = StartDay
    /\ ts_site = AllSites[1]
    /\ s3 = SeededBucket
    /\ current_site_name = None
    /\ project_id_path = <<>>
    /\ projects_hierarchy = EmptyDict
    /\ user_id_username = FALSE
    /\ bucket_name = None
    /\ upload_state = EmptyDict
    /\ failed_q = <<>>
    /\ successful_q = <<>>
    /\ pc = "idle"
    /\ call = NoCall
    /\ all_wbs = <<>>
    /\ queue_to_backup = <<>>
    /\ tasks = <<>>
    /\ result = [kind |-> "none", value |-> None, at |-> None]
    /\ runs = 0
    /\ listed = 0
    /\ loaded = EmptyDict
    /\ refresh_log = {}
    /\ listing = <<>>
    /\ prev = NoPrev
    /\ retry_run = NoRetry
    /\ io_log = NoIo
    /\ upload_run = NoUpload
    /\ \E ps \in ProjectLists :
          structure_run = [status |-> "for", all_projects |-> ps, i |-> 1,
                           parent_id |-> None, path |-> <<>>, visited |-> <<>>,
                           exc |-> None, projects |-> <<>>, ids |-> <<>>,
                           listing |-> <<>>, considered |-> <<>>, paths |-> <<>>]

structure_unchanged ==
    UNCHANGED <<now, ts_site, s3, user_id_username, bucket_name, upload_state,
                failed_q, successful_q, pc, run_vars, result, runs, listed,
                history_vars, retry_run, upload_run>>

\* lines 166-169: the next project of the for-loop
StructureFor ==
    /\ structure_run.status = "for"
    /\ structure_run.i <= Len(structure_run.all_projects)
    /\ LET project == structure_run.all_projects[structure_run.i]
       IN /\ projects_hierarchy' =
                 hierarchy_append(projects_hierarchy, project.parent_id, project.id)
          /\ structure_run' = [structure_run EXCEPT !.status = "while",
                                  !.parent_id = project.parent_id,
                                  !.path = <<>>, !.visited = <<>>]
    /\ UNCHANGED <<current_site_name, project_id_path>>
    /\ structure_unchanged

\* lines 171-173: one iteration of the while-loop with a parent to visit;
\* the harness follows a walk for at most MaxProjects + 1 iterations
StructureWalk ==
    /\ structure_run.status = "while"
    /\ structure_run.parent_id # None
    /\ structure_run.parent_id
          \in {structure_run.all_projects[k].id : k \in 1..Len(structure_run.all_projects)}
    /\ Len(structure_run.path) <= MaxProjects
    /\ LET parent == ProjectById(structure_run.all_projects, structure_run.parent_id)
       IN structure_run' = [structure_run EXCEPT
                               !.path = Append(@, parent.name),
                               !.visited = Append(@, parent.id),
                               !.parent_id = parent.parent_id]
    /\ UNCHANGED <<current_site_name, project_id_path, projects_hierarchy>>
    /\ structure_unchanged

\* line 172: all_projects[parent_id] of an id the listing does not hold
StructureKeyError ==
    /\ structure_run.status = "while"
    /\ structure_run.parent_id # None
    /\ structure_run.parent_id
          \notin {structure_run.all_projects[k].id : k \in 1..Len(structure_run.all_projects)}
    /\ structure_run' = [structure_run EXCEPT !.status = "raised", !.exc = "KeyError"]
    /\ UNCHANGED <<current_site_name, project_id_path, projects_hierarchy>>
    /\ structure_unchanged

\* mutant: the ancestors are joined nearest first
joined_path_unreversed(path, name) == join("/", path \o <<name>>) \o "/"

\* lines 176-177
joined_path(path, name) == join("/", Reverse(path) \o <<name>>) \o "/"

\* lines 174-177: the walk reached a root; the path of the project is stored
StructureBreak ==
    /\ structure_run.status = "while"
    /\ structure_run.parent_id = None
    /\ LET project == structure_run.all_projects[structure_run.i]
       IN project_id_path' = DictSet(project_id_path, project.id,
                                     joined_path(structure_run.path, project.name))
    /\ structure_run' = [structure_run EXCEPT !.status = "for", !.i = @ + 1]
    /\ UNCHANGED <<current_site_name, projects_hierarchy>>
    /\ structure_unchanged

\* the for-loop is exhausted: _build_project_structure returns
StructureReturn ==
    /\ structure_run.status = "for"
    /\ structure_run.i > Len(structure_run.all_projects)
    /\ structure_run' = [structure_run EXCEPT !.status = "built"]
    /\ UNCHANGED <<current_site_name, project_id_path, projects_hierarchy>>
    /\ structure_unchanged

\* backup_site, lines 317-338, on the built structure
StructureResolve(site_name, projects) ==
    /\ structure_run.status = "built"
    /\ current_site_name' = site_name
    /\ LET lst == StructureListing(structure_run.all_projects)
           ids == project_ids_to_backup(projects, project_id_path, projects_hierarchy)
           wbs == filter_wbs(lst, projects, ids)
       IN structure_run' = [structure_run EXCEPT
             !.status = "resolved", !.projects = projects, !.ids = ids,
             !.listing = lst, !.considered = wbs,
             !.paths = [k \in 1..Len(wbs) |->
                          _get_wb_path(site_name, project_id_path, wbs[k])]]
    /\ UNCHANGED <<project_id_path, projects_hierarchy>>
    /\ structure_unchanged

NextStructure ==
    \/ StructureFor
    \/ StructureWalk
    \/ StructureKeyError
    \/ StructureBreak
    \/ StructureReturn
    \/ \E site_name \in StructureSites, projects \in StructureFilters :
          StructureResolve(site_name, projects)

SpecStructure == InitStructure /\ [][NextStructure]_vars

(***************************************************************************)
(* full_backup2s3.py, main, lines 284-334: the upload phase. Every entry   *)
(* of the backup directory is visited in the order os.scandir yields it;   *)
(* a regular *.tsbak file is uploaded with its md5sum object and removed.  *)
(***************************************************************************)
MaxEntries == 3       \* entries of the backup directory

\* the entries os.scandir may yield: d.tsbak is a directory
DirEntries ==
    { [name |-> "a.tsbak", is_file |-> TRUE],
      [name |-> "b.tsbak", is_file |-> TRUE],
      [name |-> "c.txt", is_file |-> TRUE],
      [name |-> "d.tsbak", is_file |-> FALSE] }

\* os.scandir(backup_dir): up to MaxEntries different entries in any order
ScanOrders ==
    UNION {
        {f \in [1..n -> DirEntries] : \A i, j \in 1..n : i # j => f[i] # f[j]}
        : n \in 0..MaxEntries}

\* line 199
md5sum_filename(filename) == filename \o ".md5sum.txt"

InitUpload ==
    /\ now = StartDay
    /\ ts_site = AllSites[1]
    /\ s3 = SeededBucket
    /\ current_site_name = None
    /\ project_id_path = <<>>
    /\ projects_hierarchy = EmptyDict
    /\ user_id_username = FALSE
    /\ bucket_name = None
    /\ upload_state = EmptyDict
    /\ failed_q = <<>>
    /\ successful_q = <<>>
    /\ pc = "idle"
    /\ call = NoCall
    /\ all_wbs = <<>>
    /\ queue_to_backup = <<>>
    /\ tasks = <<>>
    /\ result = [kind |-> "none", value |-> None, at |-> None]
    /\ runs = 0
    /\ listed = 0
    /\ loaded = EmptyDict
    /\ refresh_log = {}
    /\ listing = <<>>
    /\ prev = NoPrev
    /\ retry_run = NoRetry
    /\ io_log = NoIo
    /\ structure_run = NoStructure
    /\ \E entries \in ScanOrders, zab_conf \in BOOLEAN :
          upload_run = [status |-> "scan", entries |-> entries, i |-> 1,
                        zab_conf |-> zab_conf,
                        disk |-> {entries[k].name : k \in 1..Len(entries)},
                        bucket |-> {}, attempted |-> <<>>, failed |-> {},
                        exc |-> None]

upload_unchanged ==
    UNCHANGED <<now, ts_site, s3, instance_vars, failed_q, successful_q, pc, run_vars,
                result, runs, listed, history_vars, retry_run, structure_run>>

\* line 294: the entry is a regular file whose name ends in .tsbak
is_backup_file(dir_entry) == dir_entry.is_file /\ endswith(dir_entry.name, ".tsbak")

\* the entry at hand is done with: the for-loop goes to the next one
next_entry(run) == [run EXCEPT !.status = "scan", !.i = @ + 1]

\* lines 293-294: an entry that is no regular *.tsbak file is passed over
UploadSkip ==
    /\ upload_run.status = "scan"
    /\ upload_run.i <= Len(upload_run.entries)
    /\ ~ is_backup_file(upload_run.entries[upload_run.i])
    /\ upload_run' = next_entry(upload_run)
    /\ upload_unchanged

\* lines 295-307: upload_file_with_md5sum is called for the entry
UploadStart ==
    /\ upload_run.status = "scan"
    /\ upload_run.i <= Len(upload_run.entries)
    /\ is_backup_file(upload_run.entries[upload_run.i])
    /\ upload_run' = [upload_run EXCEPT
                         !.status = "upload",
                         !.attempted = Append(@, upload_run.entries[upload_run.i].name)]
    /\ upload_unchanged

\* upload_file_with_md5sum, lines 181-194: start md5sum, upload the file; an
\* exception is caught at line 308 and the file stays
UploadTransfer(outcome) ==
    /\ upload_run.status = "upload"
    /\ LET name == upload_run.entries[upload_run.i].name
       IN upload_run' =
            IF outcome = "ok"
            THEN [upload_run EXCEPT !.status = "md5sum", !.bucket = @ \cup {name}]
            ELSE [next_entry(upload_run) EXCEPT !.failed = @ \cup {name}]
    /\ upload_unchanged

\* upload_file_with_md5sum, lines 195-206: put the md5sum object
UploadMd5sum(outcome) ==
    /\ upload_run.status = "md5sum"
    /\ LET name == upload_run.entries[upload_run.i].name
       IN upload_run' =
            IF outcome = "ok"
            THEN [upload_run EXCEPT !.status = "remove",
                                    !.bucket = @ \cup {md5sum_filename(name)}]
            ELSE [next_entry(upload_run) EXCEPT !.failed = @ \cup {name}]
    /\ upload_unchanged

\* lines 313-316, the else clause of the try: os.remove; its exception is not
\* caught and ends main
UploadRemove(outcome) ==
    /\ upload_run.status = "remove"
    /\ LET name == upload_run.entries[upload_run.i].name
       IN upload_run' =
            IF outcome = "ok"
            THEN IF upload_run.zab_conf
                 THEN [upload_run EXCEPT !.status = "notify", !.disk = @ \ {name}]
                 ELSE [next_entry(upload_run) EXCEPT !.disk = @ \ {name}]
            ELSE [upload_run EXCEPT !.status = "raised", !.exc = "OSError"]
    /\ upload_unchanged

\* lines 318-333: the three send_to_zabbix calls (subprocess.run); an
\* exception is not caught and ends main
UploadNotify(outcome) ==
    /\ upload_run.status = "notify"
    /\ upload_run' =
         IF outcome = "ok"
         THEN next_entry(upload_run)
         ELSE [upload_run EXCEPT !.status = "raised", !.exc = "OSError"]
    /\ upload_unchanged

\* line 334: the directory is exhausted
UploadEnd ==
    /\ upload_run.status = "scan"
    /\ upload_run.i > Len(upload_run.entries)
    /\ upload_run' = [upload_run EXCEPT !.status = "end"]
    /\ upload_unchanged

CallResults == {"ok", "raise"}

NextUpload ==
    \/ UploadSkip
    \/ UploadStart
    \/ \E outcome \in CallResults : UploadTransfer(outcome)
    \/ \E outcome \in CallResults : UploadMd5sum(outcome)
    \/ \E outcome \in CallResults : UploadRemove(outcome)
    \/ \E outcome \in CallResults : UploadNotify(outcome)
    \/ UploadEnd

SpecUpload == InitUpload /\ [][NextUpload]_vars

(***************************************************************************)
(* Properties.                                                             *)
(***************************************************************************)
\* the call has returned normally
Returned == pc = "idle" /\ result.kind = "return"

\* the call got past the tombstone loop and the change detection
PastDiff == pc \in {"pool", "persist"}
            \/ (pc = "idle" /\ result.at \in {"sweep", "persist", "return"})

PathOf(wb) == _get_wb_path(current_site_name, project_id_path, wb)

\* the state document of the current site, as the bucket holds it
PersistedState == json_loads(s3[StateKey(current_site_name)].body)

\* C5 (retry bound): a function that fails k < times times and then succeeds
\* makes the wrapper return that result after exactly k + 1 invocations; one
\* that fails times times in a row makes it raise the exception of the last
\* invocation after exactly times invocations.
FirstOk(outcomes, times) ==
    IF \E i \in 1..times : outcomes[i].ok
    THEN CHOOSE i \in 1..times : outcomes[i].ok /\ \A j \in 1..(i - 1) : ~ outcomes[j].ok
    ELSE 0

C5_RetryBound ==
    retry_run.done =>
        LET first == FirstOk(retry_run.outcomes, retry_run.times)
        IN IF first > 0
           THEN /\ retry_run.res.kind = "return"
                /\ retry_run.res.value = retry_run.outcomes[first].val
                /\ retry_run.res.calls = first
           ELSE /\ retry_run.res.kind = "raise"
                /\ retry_run.res.value = retry_run.outcomes[retry_run.times].exc
                /\ retry_run.res.calls = retry_run.times

\* the state write's budget: two failures, then success on the third invocation
C5_Witness ==
    /\ retry_run.done
    /\ retry_run.times = RetryTimesState
    /\ ~ retry_run.outcomes[1].ok /\ ~ retry_run.outcomes[2].ok
    /\ retry_run.outcomes[3].ok
    /\ retry_run.res.kind = "return"

\* C1 (idempotence): a call that repeats the last returned call (same site,
\* same projects filter, same listing), when that call left every listed
\* workbook recorded, schedules no transfer, returns 0 and persists a state
\* equal to the one it loaded.
C1_Idempotence ==
    (Returned /\ prev.repeat) =>
        /\ queue_to_backup = <<>>
        /\ result.value = 0
        /\ PersistedState = loaded

C1_Witness == Returned /\ prev.repeat /\ listing # <<>> /\ loaded # EmptyDict

\* C2 (removal detection): in a call that returns, every entry of the loaded
\* state whose path the server's listing does not hold has had the refresh
\* called on its object_key and is absent from the persisted state.
ListingPaths ==
    {PathOf(listing[i]) :
        i \in {j \in 1..Len(listing) : listing[j].project_id \in DictKeys(project_id_path)}}

C2_RemovalDetection ==
    Returned =>
        \A k \in DOMAIN loaded :
            k \notin ListingPaths =>
                /\ loaded[k].object_key \in refresh_log
                /\ k \notin DOMAIN PersistedState

C2_Witness ==
    /\ Returned
    /\ \E k \in DOMAIN loaded : k \notin ListingPaths
    /\ listing # <<>>

\* C3 (replacement detection), as claimed: an item whose path has an entry
\* with another id is scheduled exactly once and after the call the entry at
\* that path carries the new id.
Count(seq, x) == Cardinality({j \in 1..Len(seq) : seq[j] = x})

Replaced(wb) == /\ PathOf(wb) \in DOMAIN loaded
                /\ loaded[PathOf(wb)].id # wb.id

\* the item's transfer succeeded and _do_backup wrote its entry
TaskRecorded(j) ==
    /\ tasks[j].pc = "done"
    /\ tasks[j].exc = None
    /\ (tasks[j].include_extract
        \/ _download_error_ignore_tag \in queue_to_backup[j].tags)

SameToSecond(formatted, t) == formatted.sec = t.sec /\ formatted.tz = t.tz

Changed(wb) ==
    \/ PathOf(wb) \notin DOMAIN loaded
    \/ loaded[PathOf(wb)].id # wb.id
    \/ ~ SameToSecond(loaded[PathOf(wb)].created_at, wb.created_at)
    \/ ~ SameToSecond(loaded[PathOf(wb)].updated_at, wb.updated_at)

C9_ChangeDetection ==
    PastDiff =>
        \A i \in 1..Len(all_wbs) :
            Count(queue_to_backup, all_wbs[i]) = (IF Changed(all_wbs[i]) THEN 1 ELSE 0)

\* an item that differs from its entry in the microseconds only is skipped
C9_Witness ==
    /\ PastDiff
    /\ \E i \in 1..Len(all_wbs) :
          /\ all_wbs[i].updated_at.us # 0
          /\ ~ Changed(all_wbs[i])
          /\ Count(queue_to_backup, all_wbs[i]) = 0

\* every task of the pool has finished (the with-block of line 370 was left)
PoolFinished ==
    \/ pc = "pool" /\ PoolDone
    \/ pc = "persist"
    \/ pc = "idle" /\ result.at \in {"sweep", "persist", "return"}

\* C4 (concurrency safety): N new items with pairwise distinct paths, all
\* transferred at full fidelity, leave exactly N new entries in the state, one
\* per item, whatever the interleaving and completion order of the tasks.
AllNewAndStored ==
    /\ Len(queue_to_backup) >= 1
    /\ \A j \in 1..Len(queue_to_backup) :
          /\ PathOf(queue_to_backup[j]) \notin DOMAIN loaded
          /\ tasks[j].exc = None
          /\ tasks[j].include_extract
    /\ \A j, m \in 1..Len(queue_to_backup) :
          j # m => PathOf(queue_to_backup[j]) # PathOf(queue_to_backup[m])

C4_ConcurrencySafety ==
    (PoolFinished /\ AllNewAndStored) =>
        /\ \A j \in 1..Len(queue_to_backup) :
              /\ PathOf(queue_to_backup[j]) \in DOMAIN upload_state
              /\ upload_state[PathOf(queue_to_backup[j])].id = queue_to_backup[j].id
        /\ Cardinality(DOMAIN upload_state \ DOMAIN loaded) = Len(queue_to_backup)

\* two new items, the second task finishing before the first
C4_Witness ==
    /\ PoolFinished /\ AllNewAndStored
    /\ Len(queue_to_backup) = 2
    /\ Len(successful_q) >= 2
    /\ successful_q[Len(successful_q)] = Workbook(queue_to_backup[1])
    /\ successful_q[Len(successful_q) - 1] = Workbook(queue_to_backup[2])

\* C6 (single-writer state), as claimed: no step of a transfer worker task
\* changes upload_state.
C6_WorkersNeverWriteState ==
    [][(pc = "pool" /\ pc' = "pool") => upload_state' = upload_state]_vars

\* C7 (failure isolation): once the pool has finished every scheduled item
\* has been attempted and every failed one is on the failure sink with its
\* item; the pool is left only by the sweep, after all tasks, and the call
\* then ends only by the sweep's or the state write's own outcome.
C7_FailureIsolation ==
    /\ [](PoolFinished =>
            \A j \in 1..Len(tasks) :
                /\ tasks[j].downloads >= 1
                /\ tasks[j].exc # None =>
                      <<tasks[j].exc, Workbook(queue_to_backup[j])>> \in Range(failed_q))
    /\ [][(pc = "pool" /\ pc' # "pool") =>
             /\ PoolDone
             /\ (pc' = "persist" \/ (pc' = "idle" /\ result'.at = "sweep"))]_vars
    /\ [][(pc = "persist" /\ pc' # "persist") =>
             (pc' = "idle" /\ result'.at \in {"persist", "return"})]_vars

\* one item failed, the other was stored, the call returned
C7_Witness ==
    /\ Returned
    /\ Len(tasks) = 2
    /\ tasks[1].exc # None
    /\ tasks[2].exc = None

\* C8 (tombstone scope under a filter), as claimed: with a projects filter, an
\* entry whose item the server still lists outside the filtered projects is
\* neither refreshed as a tombstone nor removed from the state.
FilteredPaths == {PathOf(all_wbs[i]) : i \in 1..Len(all_wbs)}

C8_TombstoneScope ==
    (PastDiff /\ call.site_name \in Range(AllSites) /\ call.projects # <<>>) =>
        \A k \in DOMAIN loaded :
            (k \in ListingPaths /\ k \notin FilteredPaths) =>
                /\ loaded[k].object_key \notin refresh_log
                /\ k \in DOMAIN upload_state

\* C10 (state load): entering a site whose state document is absent yields
\* an empty state and the call goes on; any other failure of the fetch or of
\* the parse ends the call with that error, with no transfer, no tombstone
\* refresh, no sink record and no write to the bucket.
C10_StateLoad ==
    [][(pc = "idle" /\ (pc' # pc \/ runs' # runs)
        /\ call'.site_name \in Range(AllSites)) =>
          /\ (StateKey(call'.site_name) \notin DOMAIN s3 /\ call'.fetch # "error") =>
                (pc' = "entered" /\ upload_state' = EmptyDict)
          /\ (\/ call'.fetch = "error"
              \/ (StateKey(call'.site_name) \in DOMAIN s3 /\ call'.fetch = "bad_body")) =>
                /\ pc' = "idle"
                /\ result'.kind = "raise"
                /\ result'.at = "load"
                /\ s3' = s3
                /\ upload_state' = upload_state
                /\ tasks' = <<>>
                /\ refresh_log' = {}
                /\ failed_q' = failed_q
                /\ successful_q' = successful_q]_vars

\* a load that failed after an earlier call had returned
C10_Witness == pc = "idle" /\ result.at = "load" /\ prev.site_name # None

\* C11 (fidelity gating of state): a step of the pool changes or creates the
\* entry at a path only when a task for that path records its upload and the
\* full artifact was stored or the item carries the opt-out tag; an item that
\* the last returned call stored degraded without the tag is scheduled again
\* by a call with the same arguments and listing.
EntryWritten(k) ==
    /\ k \in DOMAIN upload_state'
    /\ (k \notin DOMAIN upload_state \/ upload_state'[k] # upload_state[k])

SameCallAsPrev ==
    /\ prev.site_name = call.site_name
    /\ prev.projects = call.projects
    /\ prev.listing = listing

C11_FidelityGating ==
    /\ [][(pc = "pool" /\ pc' = "pool") =>
             \A k \in DOMAIN upload_state' :
                EntryWritten(k) =>
                   \E i \in 1..Len(tasks) :
                      /\ tasks[i].pc = "uploaded" /\ tasks'[i].pc = "recorded"
                      /\ PathOf(queue_to_backup[i]) = k
                      /\ (tasks[i].include_extract
                          \/ _download_error_ignore_tag \in queue_to_backup[i].tags)]_vars
    /\ [][(pc = "pool" /\ pc' = "pool") =>
             \A i \in 1..Len(tasks) :
                (/\ tasks[i].pc = "uploaded" /\ tasks'[i].pc = "recorded"
                 /\ ~ tasks[i].include_extract
                 /\ _download_error_ignore_tag \notin queue_to_backup[i].tags)
                => upload_state' = upload_state]_vars
    /\ []((PastDiff /\ SameCallAsPrev) =>
             \A wb \in prev.degraded : Count(queue_to_backup, wb) = 1)

\* a call repeating one that stored an item degraded schedules it again
C11_Witness ==
    /\ PastDiff /\ SameCallAsPrev
    /\ prev.degraded # {}
    /\ \A wb \in prev.degraded : Count(queue_to_backup, wb) = 1

\* the structure harness has built the structure and resolved a filter
Resolved == structure_run.status = "resolved"

\* projects Root (no parent), Sales (parent Root), Q1 (parent Sales), site prod
ExampleProjects ==
    << [id |-> "q1", parent_id |-> None, name |-> "Root"],
       [id |-> "q2", parent_id |-> "q1", name |-> "Sales"],
       [id |-> "q3", parent_id |-> "q2", name |-> "Q1"] >>

IsExample ==
    /\ Resolved
    /\ structure_run.all_projects = ExampleProjects
    /\ current_site_name = "prod"

\* C12 (path resolution example), as claimed: the item Report1 of project Q1
\* resolves to prod/Sales/Q1/Report1.
C12_Original ==
    IsExample =>
        \A k \in 1..Len(structure_run.considered) :
            (/\ structure_run.considered[k].project_id = "q3"
             /\ structure_run.considered[k].name = "Report1")
            => structure_run.paths[k] = "prod/Sales/Q1/Report1"

\* C12, amended: the item Report1 of project Q1 resolves to
\* prod/Root/Sales/Q1/Report1, the name of the root project included.
C12_PathExample ==
    IsExample =>
        \A k \in 1..Len(structure_run.considered) :
            (/\ structure_run.considered[k].project_id = "q3"
             /\ structure_run.considered[k].name = "Report1")
            => structure_run.paths[k] = "prod/Root/Sales/Q1/Report1"

C12_Witness ==
    /\ IsExample
    /\ \E k \in 1..Len(structure_run.considered) :
          /\ structure_run.considered[k].project_id = "q3"
          /\ structure_run.considered[k].name = "Report1"

\* main of full_backup2s3 is over: it reached line 334 or an exception left it
UploadOver == upload_run.status \in {"end", "raised"}

Attempted(name) == \E k \in 1..Len(upload_run.attempted) : upload_run.attempted[k] = name

\* C13 (upload phase of full_backup2s3), as claimed: every regular *.tsbak
\* file of the directory is attempted; a file is gone from the disk only when
\* its upload and its md5sum object are in the bucket and nothing raised for
\* it; a file whose upload raised is still on disk and every later regular
\* *.tsbak file is attempted.
C13_UploadPhase ==
    /\ UploadOver =>
          \A k \in 1..Len(upload_run.entries) :
             is_backup_file(upload_run.entries[k]) => Attempted(upload_run.entries[k].name)
    /\ \A k \in 1..Len(upload_run.entries) :
          upload_run.entries[k].name \notin upload_run.disk =>
             /\ upload_run.entries[k].name \in upload_run.bucket
             /\ md5sum_filename(upload_run.entries[k].name) \in upload_run.bucket
             /\ upload_run.entries[k].name \notin upload_run.failed
    /\ \A name \in upload_run.failed : name \in upload_run.disk

\* C14 (degraded fallback attempted exactly once), as claimed: the transfer
\* of one item invokes the download at most RetryTimesDefault + 1 times, the
\* download without extract being invoked at most once.
C14_FallbackOnce ==
    \A j \in 1..Len(tasks) :
        /\ tasks[j].downloads <= RetryTimesDefault + 1
        /\ (~ tasks[j].include_extract) => tasks[j].downloads - RetryTimesDefault <= 1

\* C15 (hierarchy construction terminates), as claimed: the parent walk of a
\* project never visits a project twice, so it ends (at a root, or with an
\* error) within as many iterations as there are projects, also when the
\* parent links form a cycle.
C15_WalkTerminates ==
    /\ \A a, b \in 1..Len(structure_run.visited) :
          a # b => structure_run.visited[a] # structure_run.visited[b]
    /\ Len(structure_run.visited) <= Len(structure_run.all_projects)

\* C16 (hierarchy rebuilt per site entry, no carry-over), as claimed: after a
\* site was entered, project_id_path holds exactly the projects of that site
\* and projects_hierarchy lists exactly its projects, each one exactly once
\* under its parent.
SiteEntered == pc = "entered" /\ call.site_name \in Range(AllSites)

SiteProjectIds(site) == {TsProjects(site)[k].id : k \in 1..Len(TsProjects(site))}

C16_HierarchyRebuilt ==
    SiteEntered =>
        /\ DictKeys(project_id_path) = SiteProjectIds(current_site_name)
        /\ \A k \in 1..Len(TsProjects(current_site_name)) :
              LET project == TsProjects(current_site_name)[k]
              IN /\ project.parent_id \in DOMAIN projects_hierarchy
                 /\ Count(projects_hierarchy[project.parent_id], project.id) = 1
        /\ \A parent \in DOMAIN projects_hierarchy :
              Range(projects_hierarchy[parent]) \subseteq SiteProjectIds(current_site_name)

\* the ancestors of a project by its parent links (evaluated on a forest)
RECURSIVE AncestorsOf(_, _)
AncestorsOf(all_projects, id) ==
    LET parent_id == ProjectById(all_projects, id).parent_id
    IN IF parent_id = None THEN {}
       ELSE {parent_id} \cup AncestorsOf(all_projects, parent_id)

\* a project together with all its transitive descendants
SubtreeOf(all_projects, id) ==
    {id} \cup {all_projects[k].id : k \in {m \in 1..Len(all_projects) :
                  id \in AncestorsOf(all_projects, all_projects[m].id)}}

\* the projects whose path is the filter's path
NamedBy(P) == {project_id_path[k][1] : k \in {m \in 1..Len(project_id_path) :
                  project_id_path[m][2] = with_slash(P)}}

\* C17 (subtree expansion of an inclusion filter): for a filter naming the
\* path P, with or without trailing slash, of one project of the hierarchy,
\* the project ids considered are that project and all its transitive
\* descendants, and the items considered are exactly the listed items whose
\* project is one of them, in listing order.
C17_SubtreeExpansion ==
    (Resolved /\ Len(structure_run.projects) = 1) =>
        \A id \in NamedBy(structure_run.projects[1]) :
            NamedBy(structure_run.projects[1]) = {id} =>
               /\ Range(structure_run.ids) = SubtreeOf(structure_run.all_projects, id)
               /\ structure_run.considered =
                     SelectSeq(structure_run.listing,
                        LAMBDA w : w.project_id \in SubtreeOf(structure_run.all_projects, id))

\* the filter Root, without the slash, selects Root, its child and grandchild
C17_Witness ==
    /\ Resolved
    /\ structure_run.all_projects = ExampleProjects
    /\ structure_run.projects = <<"Root">>
    /\ Range(structure_run.ids) = {"q1", "q2", "q3"}
    /\ Len(structure_run.considered) = 3

\* the structure harness has built the structure (the parent links are a forest)
Built == structure_run.status \in {"built", "resolved"}

\* C18 (path formula): on an acyclic project forest the path of a project is
\* the path of its parent followed by its name and "/", the path of a root
\* its name and "/"; the path of an item is the site name, "/", the path of
\* its project and the item's name. The structure built step by step is the
\* one _build_project_structure yields in one piece.
C18_PathFormula ==
    /\ Built =>
          /\ \A k \in 1..Len(structure_run.all_projects) :
                LET project == structure_run.all_projects[k]
                IN /\ project.id \in DictKeys(project_id_path)
                   /\ DictGet(project_id_path, project.id) =
                         (IF project.parent_id = None THEN ""
                          ELSE DictGet(project_id_path, project.parent_id))
                         \o project.name \o "/"
          /\ _build_project_structure(structure_run.all_projects, EmptyDict, <<>>)
                = [hierarchy |-> projects_hierarchy, id_path |-> project_id_path]
    /\ Resolved =>
          \A k \in 1..Len(structure_run.considered) :
             structure_run.paths[k] =
                current_site_name \o "/"
                \o DictGet(project_id_path, structure_run.considered[k].project_id)
                \o structure_run.considered[k].name

\* a project two levels below a root, and an item in it
C18_Witness ==
    /\ Resolved
    /\ \E k \in 1..Len(structure_run.considered) :
          LET id == structure_run.considered[k].project_id
          IN Cardinality(AncestorsOf(structure_run.all_projects, id)) = 2

\* a step writes a state document into the bucket
StateDocWritten ==
    \E site \in Range(AllSites) :
        /\ StateKey(site) \in DOMAIN s3'
        /\ (StateKey(site) \notin DOMAIN s3 \/ s3'[StateKey(site)] # s3[StateKey(site)])

\* C19 (load once, persist once, ordering), as claimed: a call that returns
\* normally has fetched the state document exactly once, on entering the
\* site, and has written it successfully exactly once; a state document is
\* written only by the last step of the call, after every transfer task and
\* the sweep have completed.
C19_LoadOncePersistOnce ==
    /\ [](Returned => (io_log.loads = 1 /\ io_log.puts = 1))
    /\ [][(pc = "idle" /\ pc' # "idle") => io_log'.loads <= 1]_vars
    /\ [][(pc # "idle" /\ pc' # "idle") => io_log'.loads = io_log.loads]_vars
    /\ [][StateDocWritten => (pc = "persist" /\ PoolDone /\ pc' = "idle")]_vars

\* the state document of the current site after the step
PersistedStateAfter == json_loads(s3'[StateKey(current_site_name)].body)

\* the state document of the current site holds entry k
InStateDoc(k) ==
    /\ StateKey(current_site_name) \in DOMAIN s3
    /\ k \in DOMAIN PersistedState

\* C20 (tombstone purge only after a successful refresh): the tombstone loop
\* removes an entry from the state only when the refresh of its object_key
\* has returned (the object's Last-Modified is the current time); when a
\* refresh raises, the call ends with that error, the entry is unchanged in
\* the in-memory state, no state document is written, an entry that the
\* document held is still held with the same value, and in a call that
\* loaded the state from the document the entry is in the document.
C20_PurgeAfterRefresh ==
    /\ [][pc = "entered" =>
            \A k \in DOMAIN upload_state :
                k \notin DOMAIN upload_state' =>
                   /\ upload_state[k].object_key \in refresh_log'
                   /\ upload_state[k].object_key # io_log'.refresh_failed
                   /\ s3'[upload_state[k].object_key].last_modified = now]_vars
    /\ [][(pc = "entered" /\ io_log'.refresh_failed # None) =>
            /\ pc' = "idle" /\ result'.kind = "raise" /\ result'.at = "tombstone"
            /\ ~ StateDocWritten
            /\ \A k \in DOMAIN upload_state :
                  upload_state[k].object_key = io_log'.refresh_failed =>
                     /\ k \in DOMAIN upload_state'
                     /\ upload_state'[k] = upload_state[k]
                     /\ InStateDoc(k) =>
                           /\ StateKey(current_site_name) \in DOMAIN s3'
                           /\ k \in DOMAIN PersistedStateAfter
                           /\ PersistedStateAfter[k] = PersistedState[k]
                     /\ io_log.loads = 1 => InStateDoc(k)]_vars

\* in a call that loaded the state, the refresh of one entry returned and
\* that of another raised: the first is gone from the in-memory state, the
\* second is kept there and in the state document
C20_Witness ==
    /\ pc = "idle" /\ result.at = "tombstone"
    /\ io_log.loads = 1 /\ io_log.refresh_failed # None
    /\ \E k \in DOMAIN loaded : k \notin DOMAIN upload_state
    /\ \E k \in DOMAIN upload_state :
          /\ upload_state[k].object_key = io_log.refresh_failed
          /\ InStateDoc(k)

\* the transfer of the j-th scheduled item raised
TaskFailed(j) == tasks[j].exc # None

\* another scheduled item with the same path was stored and recorded
OtherRecordedAt(j) ==
    \E m \in 1..Len(tasks) :
        /\ m # j
        /\ PathOf(queue_to_backup[m]) = PathOf(queue_to_backup[j])
        /\ tasks[m].pc \in {"recorded", "done"}
        /\ tasks[m].exc = None
        /\ (tasks[m].include_extract
            \/ _download_error_ignore_tag \in queue_to_backup[m].tags)

\* the entry at path p is what the state held when the diff of the call began
SameEntryAsLoaded(p) ==
    IF p \in DOMAIN loaded
    THEN p \in DOMAIN upload_state /\ upload_state[p] = loaded[p]
    ELSE p \notin DOMAIN upload_state

SweepStep == pc = "pool" /\ pc' = "persist"

\* the object's key is under the current site and its age exceeds the horizon
OlderThanHorizon(k) ==
    /\ startswith(k, current_site_name \o "/")
    /\ now - s3[k].last_modified > call.days

\* C22 (sweep selection), as claimed: the sweep refreshes only objects under
\* the current site's prefix whose age in days exceeds the horizon, and each
\* of those is refreshed or its failure is put on the failure sink; an object
\* whose age equals the horizon keeps its Last-Modified.
C22_SweepSelection ==
    [][SweepStep =>
         /\ \A k \in DOMAIN s3 :
               s3'[k].last_modified # s3[k].last_modified => OlderThanHorizon(k)
         /\ \A k \in DOMAIN s3 :
               OlderThanHorizon(k) =>
                  (s3'[k].last_modified = now \/ Len(failed_q') > Len(failed_q))]_vars

\* the objects lines 436-437 select
Selected == outdated(s3, current_site_name, now, call.days)

\* the selected objects whose Last-Modified the step left as it was
NotRefreshed == {k \in Selected : s3'[k].last_modified # now}

\* C23 (sweep failure isolation): when a refresh of the sweep raises, the
\* error goes to the failure sink with a null item, one record per failed
\* object, every other selected object is refreshed, and the call goes on to
\* the state write, which is the only step that follows.
C23_SweepIsolation ==
    /\ [][(SweepStep /\ failed_q' # failed_q) =>
             /\ Len(failed_q') > Len(failed_q)
             /\ SubSeq(failed_q', 1, Len(failed_q)) = failed_q
             /\ \A n \in (Len(failed_q) + 1)..Len(failed_q') :
                   failed_q'[n] = <<"ClientError", NoWorkbook>>
             /\ Cardinality(NotRefreshed) = Len(failed_q') - Len(failed_q)
             /\ upload_state' = upload_state]_vars
    /\ [][(pc = "persist" /\ pc' # "persist") =>
             /\ pc' = "idle"
             /\ io_log'.put_calls >= 1
             /\ result'.kind = "return" =>
                   /\ StateKey(current_site_name) \in DOMAIN s3'
                   /\ PersistedStateAfter = upload_state]_vars

\* a call without transfers and tombstones returned after a sweep in which one
\* refresh raised and another object was refreshed
C23_Witness ==
    /\ Returned
    /\ tasks = <<>> /\ refresh_log = {}
    /\ <<"ClientError", NoWorkbook>> \in Range(failed_q)
    /\ \E k \in DOMAIN s3 : s3[k].kind = "file" /\ s3[k].last_modified = now
    /\ \E k \in DOMAIN s3 : s3[k].kind = "file" /\ s3[k].last_modified < now
    /\ PersistedState = upload_state

\* every path key of the state st begins with the name of site and '/'
ScopedTo(st, site) == \A k \in DOMAIN st : startswith(k, site \o "/")

\* every state document of the bucket holds only paths of its own site
DocumentsScoped ==
    \A site \in Range(AllSites) :
        StateKey(site) \in DOMAIN s3 =>
            ScopedTo(json_loads(s3[StateKey(site)].body), site)

\* C24 (state is scoped to one site), as claimed: in every reachable state the
\* paths of the in-memory state begin with the current site's name, and every
\* state document holds only paths of the site it is written for.
C24_StateScopedToSite ==
    /\ (current_site_name = None => upload_state = EmptyDict)
    /\ (current_site_name # None => ScopedTo(upload_state, current_site_name))
    /\ DocumentsScoped

\* the records the running call has put on the two sinks
FailedOfCall == SubSeq(failed_q, io_log.failed_before + 1, Len(failed_q))

SuccessfulOfCall == SubSeq(successful_q, io_log.successful_before + 1, Len(successful_q))

\* the records of the failure sink that carry the item wb
FailuresOf(wb) == {n \in 1..Len(FailedOfCall) : FailedOfCall[n][2] = Workbook(wb)}

SuccessesOf(wb) == {n \in 1..Len(SuccessfulOfCall) : SuccessfulOfCall[n] = Workbook(wb)}

\* C25 (exactly one outcome per scheduled item): once the pool has finished,
\* each scheduled item has exactly one record of this call on the two sinks
\* together: its summary on the success sink when _do_backup returned, the
\* (error, item) pair on the failure sink when it raised.
C25_OneOutcomePerItem ==
    PoolFinished =>
        \A j \in 1..Len(queue_to_backup) :
            LET wb == queue_to_backup[j]
            IN /\ Cardinality(FailuresOf(wb)) + Cardinality(SuccessesOf(wb)) = 1
               /\ Cardinality(SuccessesOf(wb)) = 1 <=> tasks[j].exc = None
               /\ tasks[j].exc # None =>
                     \E n \in FailuresOf(wb) : FailedOfCall[n][1] = tasks[j].exc

\* the pool has finished with one item stored and another failed
C25_Witness ==
    /\ PoolFinished
    /\ Len(tasks) = 2
    /\ tasks[1].exc = None
    /\ tasks[2].exc # None

\* the step belongs to a call whose site name the server does not list
UnknownSiteStep ==
    \/ pc # "idle" /\ call.site_name \notin Range(AllSites)
    \/ pc = "idle" /\ pc' # "idle" /\ call'.site_name \notin Range(AllSites)

\* C26 (unknown site has no effect), as claimed: no step of a call for a site
\* the server does not list schedules a transfer, refreshes an object, writes
\* to the bucket or to a sink, or changes the in-memory state or the current
\* site.
C26_UnknownSiteNoEffect ==
    [][UnknownSiteStep =>
         /\ tasks' = <<>>
         /\ refresh_log' = {}
         /\ s3' = s3
         /\ upload_state' = upload_state
         /\ current_site_name' = current_site_name
         /\ failed_q' = failed_q
         /\ successful_q' = successful_q]_vars

\* line 327: the id a project path of the filter resolves to
ResolvedId(path) == first_key_with_value(project_id_path, with_slash(path))

\* the projects of the site that have the path the filter names
ProjectsAt(site, path) ==
    {k \in 1..Len(TsProjects(site)) :
        project_path(TsProjects(site), TsProjects(site)[k]) = with_slash(path)}

\* C27 (filter resolution is site-local), as claimed: in a call with a filter
\* on a listed site, a filter path that a project of that site has resolves
\* to the id of that project, and the listed items of that project are
\* selected.
C27_FilterSiteLocal ==
    ((pc = "entered" \/ PastDiff)
     /\ call.site_name \in Range(AllSites) /\ call.projects # <<>>) =>
        \A n \in 1..Len(call.projects) :
            \A k \in ProjectsAt(call.site_name, call.projects[n]) :
                /\ ResolvedId(call.projects[n]) = TsProjects(call.site_name)[k].id
                /\ PastDiff =>
                      \A i \in 1..Len(listing) :
                          listing[i].project_id = TsProjects(call.site_name)[k].id
                             => listing[i] \in Range(all_wbs)

\* the pool of call number n + 1 has finished and a transfer was recorded
PoolFinishedWithRecord(n) ==
    /\ runs = n
    /\ pc = "pool" /\ PoolDone
    /\ \E j \in 1..Len(tasks) : TaskRecorded(j)

\* the state document holds the entry of every recorded transfer of the call
RecordedInDocument ==
    /\ StateKey(current_site_name) \in DOMAIN s3
    /\ \A j \in 1..Len(tasks) :
          TaskRecorded(j) =>
             /\ PathOf(queue_to_backup[j]) \in DOMAIN PersistedState
             /\ PersistedState[PathOf(queue_to_backup[j])]
                   = upload_state[PathOf(queue_to_backup[j])]

\* call number n + 1 has ended with the entries written, or the write itself
\* failed
WrittenOrWriteFailed(n) ==
    /\ runs = n + 1
    /\ pc = "idle"
    /\ (RecordedInDocument \/ result.at = "persist")

\* C28 (recorded transfers are persisted), as claimed: once the pool of a call
\* has finished with recorded transfers, the call goes on to write the state
\* document with their entries, whatever the sweep in between does; only a
\* failure of the write itself leaves them unwritten.
C28_RecordedPersisted ==
    \A n \in 0..(MaxRuns - 1) : PoolFinishedWithRecord(n) ~> WrittenOrWriteFailed(n)

====
